---- MODULE Spec2Model ----
(***************************************************************************)
(* State-machine model of the exam-session core of the aviation exam API:  *)
(* the session routes (start, resume, mark-answered, bookmark, submit),    *)
(* the answer-submission routes with their grading, and the WebSocket      *)
(* run-start / run-pause handlers, over the Mongoose collections           *)
(* ExamAssignment, ExamSession and SubmittedAnswer.                        *)
(*                                                                         *)
(* The source tree holds two revisions of two handlers; both are modelled, *)
(* each as its own action:                                                 *)
(*   POST /api/exam-sessions/start   PostStart   (findOne existing check)  *)
(*                                   PostStartV1 (no check)                *)
(*   POST /api/submitted-answers     PostSubmittedAnswer   (upsert)        *)
(*                                   PostSubmittedAnswerV1 (auto-submit)   *)
(***************************************************************************)
EXTENDS Integers, Sequences, FiniteSets, TLC

\* ------------------------------------------------------------------ bounds
\* Sessions ever created (ExamSession documents).
MaxSessions == 1
\* The clock runs over 1..MaxClock (whole seconds since the epoch, never 0).
MaxClock == 2
\* WebSocket channels open at once for one session.
MaxSockets == 2
\* Requests that may be between two awaits at once (SpecConc only).
MaxInFlight == 2
\* Sessions ever created in SpecConc.
MaxRaceSessions == 2
\* Requests ever admitted in SpecConc.
MaxRequests == 4
\* The largest tolerance (plusT, minusT) of the questions graded in SpecGrading.
MaxTolerance == 2

\* JavaScript null (schema defaults `default: null`), and findIndex's "none".
NULL == -1

\* ---------------------------------------------------------------- fixtures
\* Users: _id -> role (userSchema.role).
Users == [admin |-> "admin", stu1 |-> "student", stu2 |-> "student"]
\* The callers the handlers see: users holding a valid token.
Callers == DOMAIN Users

\* Tagged JavaScript values of the Mixed fields submittedValue/correctAnswer.
StrVal(s) == [t |-> "str", s |-> s, n |-> 0]
NumVal(n) == [t |-> "num", s |-> "", n |-> n]

\* Question documents. q1, q2 are the questions of exam e1, q4..q6 those of
\* exam e2 (5 marks each), q3 belongs to no exam.
Questions ==
  [q1 |-> [type |-> "mcq",   marks |-> 5, correctAnswer |-> StrVal("B"),
           plusT |-> NULL, minusT |-> NULL],
   q2 |-> [type |-> "short", marks |-> 3, correctAnswer |-> NumVal(10),
           plusT |-> 2, minusT |-> 1],
   q3 |-> [type |-> "mcq",   marks |-> 4, correctAnswer |-> StrVal("A"),
           plusT |-> NULL, minusT |-> NULL],
   q4 |-> [type |-> "mcq",   marks |-> 5, correctAnswer |-> StrVal("B"),
           plusT |-> NULL, minusT |-> NULL],
   q5 |-> [type |-> "mcq",   marks |-> 5, correctAnswer |-> StrVal("B"),
           plusT |-> NULL, minusT |-> NULL],
   q6 |-> [type |-> "mcq",   marks |-> 5, correctAnswer |-> StrVal("B"),
           plusT |-> NULL, minusT |-> NULL]]
\* Exam documents: type, duration in seconds, ordered question list.
Exams ==
  [e1 |-> [type |-> "timed", duration |-> 1, questions |-> <<"q1", "q2">>],
   e2 |-> [type |-> "untimed", duration |-> 1,
           questions |-> <<"q4", "q5", "q6">>]]
\* examSchema.questions of exam e1: its ordered question list.
ExamQuestions == Exams["e1"].questions
\* The exam's questions as a set.
ExamQuestionSet == {ExamQuestions[k] : k \in 1..Len(ExamQuestions)}
\* Question ids a request may carry: existing ones and one that names nothing.
\* "" is a request with a required field missing.
QuestionInputs == {"q1", "q2", "q3", "", "qx"}
\* Submitted values a request may carry.
SubmittedValues == {StrVal("B"), NumVal(10)}

\* ExamAssignment documents (attemptsUsed is state, the rest is fixed here).
\* opensAt and closesAt hold epoch seconds in decimal, which the comparison
\* with `now` converts to numbers.
Assignments ==
  [a1 |-> [examId |-> "e1", studentId |-> "stu1", allowedAttempts |-> 1,
           status |-> "active", opensAt |-> 1, closesAt |-> 1],
   a2 |-> [examId |-> "e1", studentId |-> "stu1", allowedAttempts |-> 1,
           status |-> "disabled", opensAt |-> 1, closesAt |-> 1],
   a3 |-> [examId |-> "e2", studentId |-> "stu1", allowedAttempts |-> 1,
           status |-> "active", opensAt |-> 2, closesAt |-> 2]]
\* assignment.examId (populated): the exam of an assignment.
ExamOf(aid) == Exams[Assignments[aid].examId]
\* assignment.examId.questions
QuestionsOf(aid) == ExamOf(aid).questions
\* Assignment ids a request may carry: "" is a missing field, "ax" names nothing.
AssignmentInputs == DOMAIN Assignments \cup {"", "ax"}

\* ------------------------------------------------------------------- state
VARIABLES
  now,          \* Math.floor(Date.now() / 1000)
  attemptsUsed, \* ExamAssignment.attemptsUsed, by assignment id
  sessions,     \* ExamSession collection: sequence of documents, _id = index
  answers,      \* SubmittedAnswer collection: per sessionId, the documents
                \* with that sessionId in insertion order
  sockets,      \* open WebSocket channels (close listener registered) per session
  inflight,     \* requests suspended at an await, with their local variables
  requests,     \* number of requests admitted to a slot so far
  response      \* the last response sent (HTTP body or WebSocket outcome)

vars ==
  <<now, attemptsUsed, sessions, answers, sockets, inflight, requests, response>>

\* The ids the ExamSession collection can hold in any specification.
SessionIds ==
  1..(IF MaxSessions > MaxRaceSessions THEN MaxSessions ELSE MaxRaceSessions)
\* Session ids a URL may carry; MaxSessions + 1 never names a session.
SessionParams == 1..(MaxSessions + 1)
\* Session ids a query string may carry: 0 is a missing or malformed id.
SessionInputs == 0..(MaxSessions + 1)

\* ----------------------------------------------------------------- helpers
Digits == <<"0", "1", "2", "3", "4", "5", "6", "7", "8", "9">>

RECURSIVE NatToStr(_)
\* Number.prototype.toString for a natural number.
NatToStr(n) ==
  IF n < 10 THEN Digits[n + 1]
  ELSE NatToStr(n \div 10) \o Digits[(n % 10) + 1]

\* String(v) as used by the mcq comparison.
JsString(v) == IF v.t = "str" THEN v.s ELSE NatToStr(v.n)

\* The decimal forms of 0..99, by number.
DecimalForms == [k \in 0..99 |-> NatToStr(k)]

\* Number(v): [nan, n]. A string converts when it is the decimal form of a
\* number in 0..99, otherwise it is NaN.
JsNumber(v) ==
  IF v.t = "num" THEN [nan |-> FALSE, n |-> v.n]
  ELSE IF \E k \in 0..99 : DecimalForms[k] = v.s
       THEN [nan |-> FALSE, n |-> CHOOSE k \in 0..99 : DecimalForms[k] = v.s]
       ELSE [nan |-> TRUE, n |-> 0]

\* Number(question.plusT) || 0 for an optional Number field.
ToleranceOrZero(t) == IF t = NULL THEN 0 ELSE t

\* A tolerance check that takes plusT on both sides.
IsCorrectSymmetric(q, submittedValue) ==
  IF q.type = "mcq"
  THEN JsString(submittedValue) = JsString(q.correctAnswer)
  ELSE LET sub == JsNumber(submittedValue)
           correct == JsNumber(q.correctAnswer)
           plusT == ToleranceOrZero(q.plusT)
       IN  /\ ~sub.nan
           /\ ~correct.nan
           /\ sub.n >= correct.n - plusT
           /\ sub.n <= correct.n + plusT

\* Correctness of a submitted value (part_001 lines 88-102).
IsCorrect(q, submittedValue) ==
  IF q.type = "mcq"
  THEN JsString(submittedValue) = JsString(q.correctAnswer)
  ELSE LET sub == JsNumber(submittedValue)
           correct == JsNumber(q.correctAnswer)
           plusT == ToleranceOrZero(q.plusT)
           minusT == ToleranceOrZero(q.minusT)
       IN  /\ ~sub.nan
           /\ ~correct.nan
           /\ sub.n >= correct.n - minusT
           /\ sub.n <= correct.n + plusT

\* Correctness as the older handler computes it (no isNaN guard: a NaN
\* operand makes both comparisons false).
IsCorrectV1(q, submittedValue) ==
  IF q.type = "mcq"
  THEN JsString(submittedValue) = JsString(q.correctAnswer)
  ELSE LET sub == JsNumber(submittedValue)
           correct == JsNumber(q.correctAnswer)
           plusT == ToleranceOrZero(q.plusT)
           minusT == ToleranceOrZero(q.minusT)
       IN  IF sub.nan \/ correct.nan THEN FALSE
           ELSE sub.n >= correct.n - minusT /\ sub.n <= correct.n + plusT

\* A new ExamSession document (schema defaults, part_006 lines 131-152).
NewSession(assignmentId) ==
  [assignmentId |-> assignmentId, grade |-> 0, submittedAt |-> NULL,
   isRunning |-> FALSE, runAt |-> NULL, pausedAt |-> NULL,
   totalTimeConsumed |-> 0, answeredQuestions |-> <<>>,
   bookmarkedQuestions |-> <<>>]

\* A new SubmittedAnswer document (part_006 lines 157-173).
NewAnswer(sessionId, questionId, submittedValue, isCorrect) ==
  [sessionId |-> sessionId, questionId |-> questionId,
   submittedValue |-> submittedValue, isCorrect |-> isCorrect]

\* The _id of the i-th answer document of session sid.
AnswerId(sid, i) == "ans" \o NatToStr(sid) \o "_" \o NatToStr(i)

\* ExamSession.findById
SessionExists(sid) == sid \in 1..Len(sessions)

\* SubmittedAnswer.find({ sessionId }): the session's answers.
AnswersOf(coll, sid) == coll[sid]

\* A findOne that never finds.
FindNoAnswer(coll, sid, qid) == 0

\* SubmittedAnswer.findOne({ sessionId, questionId }): the first match's
\* position, 0 when there is none.
FindAnswer(coll, sid, qid) ==
  LET hits == {i \in 1..Len(AnswersOf(coll, sid)) : coll[sid][i].questionId = qid}
  IN  IF hits = {} THEN 0 ELSE CHOOSE i \in hits : \A j \in hits : i <= j

\* allAnswers.map(a => a.questionId.toString())
AnsweredQuestionIds(coll, sid) ==
  {coll[sid][i].questionId : i \in 1..Len(AnswersOf(coll, sid))}

\* A sequencer that returns the number of answered questions as the index.
NextQuestionIndexByCount(questions, answered) ==
  IF Cardinality(answered) >= Len(questions) THEN NULL ELSE Cardinality(answered)

\* questions.findIndex(q => !answeredQuestionIds.includes(q._id.toString())),
\* as a 0-based index; NULL (-1) when every question is answered.
NextQuestionIndex(questions, answered) ==
  LET open == {i \in 1..Len(questions) : questions[i] \notin answered}
  IN  IF open = {} THEN NULL
      ELSE (CHOOSE i \in open : \A j \in open : i <= j) - 1

\* Array.prototype.includes / findIndex on an id array.
Includes(arr, id) == \E i \in 1..Len(arr) : arr[i] = id

\* arr.splice(index, 1) at the first position holding id.
RemoveFirst(arr, id) ==
  LET k == CHOOSE i \in 1..Len(arr) : arr[i] = id /\ \A j \in 1..(i - 1) : arr[j] # id
  IN  SubSeq(arr, 1, k - 1) \o SubSeq(arr, k + 1, Len(arr))

\* An ownership check without the role gate.
DeniedUnlessOwner(caller, assignmentId) ==
  Assignments[assignmentId].studentId # caller

\* An ownership check that lets every caller through.
NeverDenied(caller, assignmentId) == FALSE

\* req.user.role === "student" && assignment.studentId.toString() !== req.userId
AccessDenied(caller, assignmentId) ==
  Users[caller] = "student" /\ Assignments[assignmentId].studentId # caller

\* A check of submittedAt that never fires.
NeverSubmitted(session) == FALSE

\* if (session.submittedAt): submittedAt is a String path, so any timestamp
\* stored in it is a non-empty string and truthy; null is not.
AlreadySubmitted(session) == session.submittedAt # NULL

\* ---------------------------------------------------------------- responses
\* Every response has the same shape; fields a route does not send keep the
\* values below. With an answer response go three locals of its handler as
\* they stood when it was built: qid (the questionId of the request), found
\* (findOne returned a document) and previousCorrect (that document's
\* isCorrect before the update). remainingTime is NULL where the route sends
\* null or no remaining time; type is the "type" of a remaining-time response.
NoResponse ==
  [op |-> "none", sid |-> 0, qid |-> "", status |-> 0, message |-> "",
   isCorrect |-> FALSE, gradeChange |-> 0, currentGrade |-> 0,
   nextQuestion |-> "null", nextQuestionIndex |-> NULL,
   answeredCount |-> 0, examCompleted |-> FALSE,
   found |-> FALSE, previousCorrect |-> FALSE,
   remainingTime |-> NULL, type |-> ""]

\* res.status(status).json({ ..., message }); sid is the session a
\* successful response names, 0 in a response that names none.
Reply(op, sid, status, message) ==
  [NoResponse EXCEPT !.op = op, !.sid = sid, !.status = status,
                     !.message = message]

\* A response that leaves every collection as it is.
Reject(op, status, message) ==
  /\ response' = Reply(op, 0, status, message)
  /\ UNCHANGED <<now, attemptsUsed, sessions, answers, sockets, inflight, requests>>

\* The routes behind the authenticate middleware.
Routes == {"start", "resume", "answer", "answered", "bookmark", "submit", "remainingTime"}

\* middleware/auth.js authenticate: a request without a valid token gets 401
\* and its handler never runs; with one, the handler runs as that user.
AuthenticateRejects(op) == Reject(op, 401, "Authentication required")

\* The handler's local `question` before Question.findById has returned.
NoQuestion ==
  [type |-> "", marks |-> 0, correctAnswer |-> StrVal(""),
   plusT |-> NULL, minusT |-> NULL]

\* A request slot with no request in it. A suspended request keeps the
\* handler's local variables: the ids of its request, the question and the
\* grade of the session document it loaded, the attemptsUsed of the
\* assignment populated with it, the position findOne returned, and what it
\* computed.
Idle ==
  [op |-> "idle", pc |-> "", aid |-> "", sid |-> 0, qid |-> "",
   question |-> NoQuestion, loadedAttempts |-> 0,
   submittedValue |-> StrVal(""), isCorrect |-> FALSE, found |-> 0,
   previousCorrect |-> FALSE, loadedGrade |-> 0, grade |-> 0, pushed |-> "",
   totalTimeConsumed |-> 0, pausedAt |-> NULL]

Init ==
  /\ now = 1
  /\ attemptsUsed = [a \in DOMAIN Assignments |-> 0]
  /\ sessions = <<>>
  /\ answers = [s \in SessionIds |-> <<>>]
  /\ sockets = [s \in SessionIds |-> 0]
  /\ inflight = [i \in 1..MaxInFlight |-> Idle]
  /\ requests = 0
  /\ response = NoResponse

\* The clock advances by one second.
Tick ==
  /\ now < MaxClock
  /\ now' = now + 1
  /\ UNCHANGED <<attemptsUsed, sessions, answers, sockets, inflight, requests, response>>

\* ------------------------------------------------- POST /exam-sessions/start
\* assignment.attemptsUsed >= assignment.allowedAttempts
NoAttemptsRemaining(aid) == attemptsUsed[aid] >= Assignments[aid].allowedAttempts

\* A window check that never refuses.
NeverOutsideWindow(aid) == FALSE

\* now < assignment.opensAt || now > assignment.closesAt
OutsideWindow(aid) == now < Assignments[aid].opensAt \/ now > Assignments[aid].closesAt

\* ExamSession.findOne({ assignmentId, submittedAt: null }): the first open
\* session of the assignment, 0 when there is none.
FindOpenSession(coll, aid) ==
  LET hits == {i \in 1..Len(coll) :
                 coll[i].assignmentId = aid /\ coll[i].submittedAt = NULL}
  IN  IF hits = {} THEN 0 ELSE CHOOSE i \in hits : \A j \in hits : i <= j

\* The eligibility checks both revisions of the start route share; "" when
\* the request passes them, else the <<status, message>> it is refused with.
StartRefusal(caller, aid) ==
  IF aid = "" THEN <<400, "assignmentId is required">>
  ELSE IF aid \notin DOMAIN Assignments THEN <<404, "Assignment not found">>
  ELSE IF AccessDenied(caller, aid) THEN <<403, "Access denied">>
  ELSE IF Assignments[aid].status # "active"
       THEN <<400, "Assignment is not active">>
  ELSE IF NoAttemptsRemaining(aid) THEN <<400, "No attempts remaining">>
  ELSE IF OutsideWindow(aid)
       THEN <<400, "Exam not available at this time">>
  ELSE <<0, "">>

\* Start exam session, the revision that returns an existing open session.
PostStart(caller, aid) ==
  LET refusal == StartRefusal(caller, aid) IN
    IF refusal[1] # 0 THEN Reject("start", refusal[1], refusal[2])
    ELSE LET existing == FindOpenSession(sessions, aid) IN
      IF existing # 0
      THEN /\ response' = Reply("start", existing, 200, "")
           /\ UNCHANGED <<now, attemptsUsed, sessions, answers, sockets, inflight, requests>>
      ELSE /\ Len(sessions) < MaxSessions
           /\ sessions' = Append(sessions, NewSession(aid))
           /\ response' = Reply("start", Len(sessions) + 1, 201, "")
           /\ UNCHANGED <<now, attemptsUsed, answers, sockets, inflight, requests>>

\* calculateRemainingTime (routes/examSessions.js lines 14-53): null for an
\* untimed exam, 0 for a submitted session. For the rest it subtracts
\* session.timeConsumedBeforeResume from the duration; that is no path of
\* examSessionSchema, so the property is undefined, the difference is NaN,
\* `remaining > 0` is false and the result is 0.
CalculateRemainingTime(session) ==
  IF ExamOf(session.assignmentId).type = "untimed" THEN NULL
  ELSE IF AlreadySubmitted(session) THEN 0
  ELSE 0

\* Start exam session, the revision without the existing-session check.
PostStartV1(caller, aid) ==
  LET refusal == StartRefusal(caller, aid) IN
    IF refusal[1] # 0 THEN Reject("start", refusal[1], refusal[2])
    ELSE /\ Len(sessions) < MaxSessions
         /\ sessions' = Append(sessions, NewSession(aid))
         /\ response' = [Reply("start", Len(sessions) + 1, 201, "") EXCEPT
                           !.nextQuestion = QuestionsOf(aid)[1],
                           !.nextQuestionIndex = 0,
                           !.remainingTime =
                              CalculateRemainingTime(NewSession(aid))]
         /\ UNCHANGED <<now, attemptsUsed, answers, sockets, inflight, requests>>

\* --------------------------------------- POST /exam-sessions/resume/:sessionId
\* session.resumedAt is no path of examSessionSchema: the assignment sets a
\* plain property of the document object and save() persists nothing.
PostResume(caller, sid) ==
  IF ~SessionExists(sid) THEN Reject("resume", 404, "Session not found")
  ELSE IF AccessDenied(caller, sessions[sid].assignmentId)
       THEN Reject("resume", 403, "Access denied")
  ELSE IF AlreadySubmitted(sessions[sid])
       THEN Reject("resume", 400, "Exam already submitted")
  ELSE LET answered == AnsweredQuestionIds(answers, sid)
           questions == QuestionsOf(sessions[sid].assignmentId)
           nextQuestionIndex == NextQuestionIndex(questions, answered)
       IN IF nextQuestionIndex = NULL
          THEN Reject("resume", 400, "All questions answered")
          ELSE /\ response' = [Reply("resume", sid, 200, "") EXCEPT
                                 !.nextQuestion = questions[nextQuestionIndex + 1],
                                 !.nextQuestionIndex = nextQuestionIndex,
                                 !.answeredCount = Len(AnswersOf(answers, sid))]
               /\ UNCHANGED <<now, attemptsUsed, sessions, answers, sockets, inflight, requests>>

\* ------------------------------------------------ POST /submitted-answers
\* The checks before grading that both revisions share; <<0, "">> when the
\* request passes them.
AnswerRefusal(caller, sid, qid) ==
  IF qid = ""
  THEN <<400, "sessionId, questionId, and submittedValue required">>
  ELSE IF ~SessionExists(sid) THEN <<404, "Session not found">>
  ELSE IF AccessDenied(caller, sessions[sid].assignmentId)
       THEN <<403, "Access denied">>
  ELSE IF AlreadySubmitted(sessions[sid])
       THEN <<400, "Exam already submitted">>
  ELSE IF qid \notin DOMAIN Questions THEN <<404, "Question not found">>
  ELSE IF ~Includes(QuestionsOf(sessions[sid].assignmentId), qid)
       THEN <<400, "Question not part of this exam">>
  ELSE <<0, "">>

\* const gradeChange = isCorrect ? question.marks : 0
GradeChange(isCorrect, marks) == IF isCorrect THEN marks ELSE 0

\* A grade update that looks at the new correctness alone.
GradeAfterUpdateNaive(grade, previousCorrect, isCorrect, marks) ==
  grade + GradeChange(isCorrect, marks)

\* session.grade after the update-existing branch (part_001 lines 122-127).
GradeAfterUpdate(grade, previousCorrect, isCorrect, marks) ==
  IF previousCorrect /\ ~isCorrect THEN grade - marks
  ELSE IF ~previousCorrect /\ isCorrect THEN grade + GradeChange(isCorrect, marks)
  ELSE grade

\* session.grade after the create-new branch (part_001 line 140).
GradeAfterCreate(grade, isCorrect, marks) == grade + GradeChange(isCorrect, marks)

\* answer.isNew when the response is built: Mongoose clears isNew when
\* save() inserts, and a document that findOne returned never had it set.
IsNewAfterSave == FALSE

\* The gradeChange field of the response (part_001 lines 167-171):
\*   answer.isNew ? gradeChange
\*                : isCorrect ? gradeChange : -previousGradeContribution || 0
ReportedGradeChange(isNew, isCorrect, gradeChange, previousGradeContribution) ==
  IF isNew THEN gradeChange
  ELSE IF isCorrect THEN gradeChange
  ELSE IF 0 - previousGradeContribution # 0 THEN 0 - previousGradeContribution
  ELSE 0

\* The sequencing fields every answer response carries, computed from the
\* answers now stored for the session.
AnswerReply(sid, qid, status, coll, isCorrect, gradeChange, grade, found, previousCorrect) ==
  LET questions == QuestionsOf(sessions[sid].assignmentId)
      nextQuestionIndex ==
        NextQuestionIndex(questions, AnsweredQuestionIds(coll, sid))
  IN  [Reply("answer", sid, status, "") EXCEPT
         !.isCorrect = isCorrect,
         !.gradeChange = gradeChange,
         !.currentGrade = grade,
         !.nextQuestion = IF nextQuestionIndex = NULL THEN "null"
                          ELSE questions[nextQuestionIndex + 1],
         !.nextQuestionIndex = nextQuestionIndex,
         !.answeredCount = Len(AnswersOf(coll, sid)),
         !.examCompleted = (nextQuestionIndex = NULL),
         !.qid = qid,
         !.found = found,
         !.previousCorrect = previousCorrect]

\* Submit an answer, the revision that updates an existing answer and never
\* finalizes (part_001 lines 25-185).
PostSubmittedAnswer(caller, sid, qid, submittedValue) ==
  LET refusal == AnswerRefusal(caller, sid, qid) IN
    IF refusal[1] # 0 THEN Reject("answer", refusal[1], refusal[2])
    ELSE
      LET session == sessions[sid]
          question == Questions[qid]
          isCorrect == IsCorrect(question, submittedValue)
          gradeChange == GradeChange(isCorrect, question.marks)
          found == FindAnswer(answers, sid, qid)
          previousCorrect == found # 0 /\ answers[sid][found].isCorrect
          previousGradeContribution ==
            IF previousCorrect THEN question.marks ELSE 0
          answersAfter ==
            IF found # 0
            THEN [answers EXCEPT ![sid][found].submittedValue = submittedValue,
                                 ![sid][found].isCorrect = isCorrect]
            ELSE [answers EXCEPT
                    ![sid] = Append(@, NewAnswer(sid, qid, submittedValue, isCorrect))]
          gradeAfter ==
            IF found # 0
            THEN GradeAfterUpdate(session.grade, previousCorrect, isCorrect,
                                  question.marks)
            ELSE GradeAfterCreate(session.grade, isCorrect, question.marks)
          answeredAfter ==
            IF found # 0 THEN session.answeredQuestions
            ELSE Append(session.answeredQuestions,
                        AnswerId(sid, Len(answers[sid]) + 1))
      IN  /\ answers' = answersAfter
          /\ sessions' = [sessions EXCEPT ![sid].grade = gradeAfter,
                                          ![sid].answeredQuestions = answeredAfter]
          /\ response' =
               AnswerReply(sid, qid, IF IsNewAfterSave THEN 201 ELSE 200, answersAfter,
                           isCorrect,
                           ReportedGradeChange(IsNewAfterSave, isCorrect, gradeChange,
                                               previousGradeContribution),
                           gradeAfter, found # 0, previousCorrect)
          /\ UNCHANGED <<now, attemptsUsed, sockets, inflight, requests>>

\* The older revision finalizes when no question is left:
\* session.submittedAt = Math.floor(Date.now() / 1000), and nothing else.
AutoSubmit(session, nextQuestionIndex) ==
  IF nextQuestionIndex = NULL THEN [session EXCEPT !.submittedAt = now]
  ELSE session

\* Submit an answer, the revision that refuses a second answer and finalizes
\* on the last one (routes/submittedAnswers.js lines 8-158).
PostSubmittedAnswerV1(caller, sid, qid, submittedValue) ==
  LET refusal == AnswerRefusal(caller, sid, qid) IN
    IF refusal[1] # 0 THEN Reject("answer", refusal[1], refusal[2])
    ELSE IF FindAnswer(answers, sid, qid) # 0
         THEN Reject("answer", 400, "Question already answered")
    ELSE
      LET session == sessions[sid]
          question == Questions[qid]
          isCorrect == IsCorrectV1(question, submittedValue)
          gradeChange == GradeChange(isCorrect, question.marks)
          answersAfter ==
            [answers EXCEPT
               ![sid] = Append(@, NewAnswer(sid, qid, submittedValue, isCorrect))]
          graded == [session EXCEPT !.grade = session.grade + gradeChange]
          nextQuestionIndex ==
            NextQuestionIndex(QuestionsOf(session.assignmentId),
                              AnsweredQuestionIds(answersAfter, sid))
      IN  /\ answers' = answersAfter
          /\ sessions' = [sessions EXCEPT ![sid] = AutoSubmit(graded, nextQuestionIndex)]
          /\ response' = AnswerReply(sid, qid, 201, answersAfter, isCorrect, gradeChange,
                                     graded.grade, FALSE, FALSE)
          /\ UNCHANGED <<now, attemptsUsed, sockets, inflight, requests>>

\* --------------------------- POST /exam-sessions/:sessionId/answered/:questionId
\* The checks mark-answered and bookmark share.
SessionQuestionRefusal(caller, sid, qid) ==
  IF ~SessionExists(sid) THEN <<404, "Session not found">>
  ELSE IF AccessDenied(caller, sessions[sid].assignmentId)
       THEN <<403, "Access denied">>
  ELSE IF AlreadySubmitted(sessions[sid])
       THEN <<400, "Exam already submitted">>
  ELSE IF ~Includes(QuestionsOf(sessions[sid].assignmentId), qid)
       THEN <<400, "Invalid question for this exam">>
  ELSE <<0, "">>

\* A mark-answered that pushes without looking.
PostAnsweredAlways(caller, sid, qid) ==
  LET refusal == SessionQuestionRefusal(caller, sid, qid) IN
    IF refusal[1] # 0 THEN Reject("answered", refusal[1], refusal[2])
    ELSE /\ sessions' = [sessions EXCEPT ![sid].answeredQuestions = Append(@, qid)]
         /\ response' = Reply("answered", sid, 200, "Question marked as answered")
         /\ UNCHANGED <<now, attemptsUsed, answers, sockets, inflight, requests>>

\* Add a question to answeredQuestions if it is not there yet.
PostAnswered(caller, sid, qid) ==
  LET refusal == SessionQuestionRefusal(caller, sid, qid) IN
    IF refusal[1] # 0 THEN Reject("answered", refusal[1], refusal[2])
    ELSE /\ sessions' =
              IF Includes(sessions[sid].answeredQuestions, qid) THEN sessions
              ELSE [sessions EXCEPT ![sid].answeredQuestions = Append(@, qid)]
         /\ response' = Reply("answered", sid, 200, "Question marked as answered")
         /\ UNCHANGED <<now, attemptsUsed, answers, sockets, inflight, requests>>

\* A bookmark route that only ever adds.
PostBookmarkAddOnly(caller, sid, qid) ==
  LET refusal == SessionQuestionRefusal(caller, sid, qid) IN
    IF refusal[1] # 0 THEN Reject("bookmark", refusal[1], refusal[2])
    ELSE /\ sessions' = [sessions EXCEPT ![sid].bookmarkedQuestions = Append(@, qid)]
         /\ response' = Reply("bookmark", sid, 200, "bookmarked")
         /\ UNCHANGED <<now, attemptsUsed, answers, sockets, inflight, requests>>

\* --------------------------- POST /exam-sessions/:sessionId/bookmark/:questionId
\* Toggle a bookmark: push when absent, splice the first occurrence out when
\* present.
PostBookmark(caller, sid, qid) ==
  LET refusal == SessionQuestionRefusal(caller, sid, qid) IN
    IF refusal[1] # 0 THEN Reject("bookmark", refusal[1], refusal[2])
    ELSE IF ~Includes(sessions[sid].bookmarkedQuestions, qid)
    THEN /\ sessions' = [sessions EXCEPT ![sid].bookmarkedQuestions = Append(@, qid)]
         /\ response' = Reply("bookmark", sid, 200, "bookmarked")
         /\ UNCHANGED <<now, attemptsUsed, answers, sockets, inflight, requests>>
    ELSE /\ sessions' = [sessions EXCEPT
                           ![sid].bookmarkedQuestions = RemoveFirst(@, qid)]
         /\ response' = Reply("bookmark", sid, 200, "unbookmarked")
         /\ UNCHANGED <<now, attemptsUsed, answers, sockets, inflight, requests>>

\* ------------------------------------- POST /exam-sessions/:sessionId/submit
\* The session as the submit route saves it (lines 656-664).
Finalized(session) ==
  [session EXCEPT !.submittedAt = now, !.isRunning = FALSE,
                  !.runAt = NULL, !.pausedAt = NULL]

\* assignment.attemptsUsed += 1; await assignment.save()
IncrementAttempts(used, aid) == [used EXCEPT ![aid] = @ + 1]

\* Submit the exam session.
PostSubmit(caller, sid) ==
  IF ~SessionExists(sid) THEN Reject("submit", 404, "Session not found")
  ELSE IF AccessDenied(caller, sessions[sid].assignmentId)
       THEN Reject("submit", 403, "Access denied")
  ELSE IF AlreadySubmitted(sessions[sid])
       THEN Reject("submit", 400, "Exam already submitted")
  ELSE /\ sessions' = [sessions EXCEPT ![sid] = Finalized(@)]
       /\ attemptsUsed' = IncrementAttempts(attemptsUsed, sessions[sid].assignmentId)
       /\ response' = Reply("submit", sid, 200, "Exam submitted successfully")
       /\ UNCHANGED <<now, answers, sockets, inflight, requests>>

\* ------------------------------ GET /exam-sessions/remaining-time/:sessionId
\* null for an untimed exam (checked first), 0 for a submitted session,
\* otherwise duration - totalTimeConsumed, floored and not below 0. The run in
\* progress (now - runAt) is not read.
GetRemainingTime(caller, sid) ==
  IF ~SessionExists(sid) THEN Reject("remainingTime", 404, "Session not found")
  ELSE IF AccessDenied(caller, sessions[sid].assignmentId)
       THEN Reject("remainingTime", 403, "Access denied")
  ELSE LET session == sessions[sid]
           exam == ExamOf(session.assignmentId)
           remainingTime == exam.duration - session.totalTimeConsumed
       IN  /\ response' =
                 IF exam.type = "untimed"
                 THEN [Reply("remainingTime", sid, 200, "") EXCEPT
                         !.remainingTime = NULL, !.type = "untimed"]
                 ELSE IF AlreadySubmitted(session)
                 THEN [Reply("remainingTime", sid, 200, "") EXCEPT
                         !.remainingTime = 0, !.type = "submitted"]
                 ELSE [Reply("remainingTime", sid, 200, "") EXCEPT
                         !.remainingTime = IF remainingTime > 0 THEN remainingTime
                                           ELSE 0,
                         !.type = "timed"]
           /\ UNCHANGED <<now, attemptsUsed, sessions, answers, sockets, inflight, requests>>

\* ------------------------------------------------- WebSocket /exam-socket
\* Early closes that use the code of the catch block.
WsRefusalAsFault(sid) ==
  IF sid = 0 THEN <<1011, "Invalid sessionId">>
  ELSE IF ~SessionExists(sid) THEN <<1011, "Session not found">>
  ELSE <<0, "">>

\* The two early closes of the connection handler; sid = 0 is a sessionId
\* that is missing or no valid ObjectId. <<0, "">> when the connection passes.
WsRefusal(sid) ==
  IF sid = 0 THEN <<1008, "Invalid sessionId">>
  ELSE IF ~SessionExists(sid) THEN <<1008, "Session not found">>
  ELSE <<0, "">>

\* wss.on("connection"): run-start. No check of submittedAt, of the caller,
\* or of a channel already open.
WsConnection(sid) ==
  IF WsRefusal(sid)[1] # 0
  THEN Reject("wsConnection", WsRefusal(sid)[1], WsRefusal(sid)[2])
  ELSE /\ sockets[sid] < MaxSockets
       /\ sessions' = [sessions EXCEPT ![sid].isRunning = TRUE,
                                       ![sid].runAt = now,
                                       ![sid].pausedAt = NULL]
       /\ sockets' = [sockets EXCEPT ![sid] = @ + 1]
       /\ response' = Reply("wsConnection", sid, 0, "open")
       /\ UNCHANGED <<now, attemptsUsed, answers, inflight, requests>>

\* The catch of the connection handler: findById or findByIdAndUpdate throws
\* (the database is unreachable), nothing is written, the close listener is
\* not registered yet, and the socket is closed with 1011.
WsConnectionFault(sid) ==
  /\ sid # 0
  /\ Reject("wsConnection", 1011, "Server error")

\* A close handler that counts no time for the run.
NoTimeInThisRun(session) == 0

\* Time spent in the run that ends now:
\*   runAtTime = session.runAt ? new Date(session.runAt) : now
\*   Math.floor((now - runAtTime) / 1000)
TimeInThisRun(session) == IF session.runAt = NULL THEN 0 ELSE now - session.runAt

\* ws.on("close"): run-pause.
WsClose(sid) ==
  /\ sid \in SessionIds
  /\ sockets[sid] > 0
  /\ sockets' = [sockets EXCEPT ![sid] = @ - 1]
  /\ sessions' = [sessions EXCEPT
                    ![sid].isRunning = FALSE,
                    ![sid].pausedAt = now,
                    ![sid].totalTimeConsumed = @ + TimeInThisRun(sessions[sid])]
  /\ response' = Reply("wsClose", sid, 0, "paused")
  /\ UNCHANGED <<now, attemptsUsed, answers, inflight, requests>>

\* The owner of assignment a1.
Owner == "stu1"

\* ------------------------------------------------------------ specification
\* One request at a time: each handler runs from its first line to its
\* response before the next request is taken.

\* The session lifecycle and the grading pipeline: the owner's requests for
\* assignment a1, naming a session that exists or the id after the last one.
Next ==
  \/ PostStart(Owner, "a1")
  \/ PostStartV1(Owner, "a1")
  \/ \E s \in SessionParams : PostResume(Owner, s)
  \/ \E s \in SessionParams, q \in ExamQuestionSet, v \in SubmittedValues :
        PostSubmittedAnswer(Owner, s, q, v)
  \/ \E s \in SessionParams, q \in ExamQuestionSet, v \in SubmittedValues :
        PostSubmittedAnswerV1(Owner, s, q, v)
  \/ \E s \in SessionParams : PostSubmit(Owner, s)

Spec == Init /\ [][Next]_vars

\* The values a request is tried with: a request that is refused before
\* grading is refused whatever value it carries, so one value stands for all.
ValuesTried(c, s, q) ==
  IF AnswerRefusal(c, s, q)[1] # 0
  THEN {CHOOSE v \in SubmittedValues : TRUE}
  ELSE SubmittedValues

\* The routes under every caller and every malformed or foreign id.
NextRequests ==
  \/ \E op \in Routes \ {"answered", "bookmark"} : AuthenticateRejects(op)
  \/ \E c \in Callers, a \in AssignmentInputs : PostStart(c, a)
  \/ \E c \in Callers, a \in AssignmentInputs : PostStartV1(c, a)
  \/ \E c \in Callers, s \in SessionParams : PostResume(c, s)
  \/ \E c \in Callers, s \in SessionParams, q \in QuestionInputs :
        \E v \in ValuesTried(c, s, q) : PostSubmittedAnswer(c, s, q, v)
  \/ \E c \in Callers, s \in SessionParams, q \in QuestionInputs :
        \E v \in ValuesTried(c, s, q) : PostSubmittedAnswerV1(c, s, q, v)
  \/ \E c \in Callers, s \in SessionParams : PostSubmit(c, s)

SpecRequests == Init /\ [][NextRequests]_vars

\* A session of its owner through every operation that writes it, with the
\* WebSocket channel and the clock.
NextChannel ==
  \/ Tick
  \/ PostStart(Owner, "a1")
  \/ \E s \in SessionParams : PostResume(Owner, s)
  \/ \E s \in SessionParams, v \in SubmittedValues :
        PostSubmittedAnswer(Owner, s, ExamQuestions[1], v)
  \/ \E s \in SessionParams, q \in {ExamQuestions[1], "q3"} :
        PostAnswered(Owner, s, q)
  \/ \E s \in SessionParams, q \in {ExamQuestions[1], "q3"} :
        PostBookmark(Owner, s, q)
  \/ \E s \in SessionParams : PostSubmit(Owner, s)
  \/ \E s \in SessionInputs : WsConnection(s)
  \/ \E s \in SessionIds : WsClose(s)

SpecChannel == Init /\ [][NextChannel]_vars

\* The start route under every caller and assignment id, with the clock and
\* the two routes that finalize a session.
NextStart ==
  \/ Tick
  \/ \E c \in Callers, a \in AssignmentInputs : PostStart(c, a)
  \/ \E c \in Callers, a \in AssignmentInputs : PostStartV1(c, a)
  \/ \E s \in SessionParams : PostSubmit(Owner, s)
  \/ \E s \in SessionParams, q \in ExamQuestionSet :
       PostSubmittedAnswerV1(Owner, s, q, StrVal("B"))

SpecStart == Init /\ [][NextStart]_vars

\* One student answering the exam of three questions in any order, under both
\* revisions of the answer route, and asking the resume route what is next.
NextSequence ==
  \/ Tick
  \/ PostStart(Owner, "a3")
  \/ \E s \in SessionParams : PostResume(Owner, s)
  \/ \E s \in SessionParams, q \in {"q4", "q5", "q6"} :
       PostSubmittedAnswer(Owner, s, q, StrVal("B"))
  \/ \E s \in SessionParams, q \in {"q4", "q5", "q6"} :
       PostSubmittedAnswerV1(Owner, s, q, StrVal("B"))

SpecSequence == Init /\ [][NextSequence]_vars

\* One student working through the exam of three questions in any order,
\* with a right and a wrong value for each question, under both revisions of
\* the answer route.
Exam3Values == {StrVal("B"), StrVal("A")}

NextExam3 ==
  \/ Tick
  \/ PostStart(Owner, "a3")
  \/ \E s \in SessionParams : PostResume(Owner, s)
  \/ \E s \in SessionParams, q \in {"q4", "q5", "q6"}, v \in Exam3Values :
       PostSubmittedAnswer(Owner, s, q, v)
  \/ \E s \in SessionParams, q \in {"q4", "q5", "q6"}, v \in Exam3Values :
       PostSubmittedAnswerV1(Owner, s, q, v)

SpecExam3 == Init /\ [][NextExam3]_vars

\* The answer route under every caller, session id and question id,
\* on a session the owner starts and may finalize.
NextAnswers ==
  \/ PostStart(Owner, "a1")
  \/ \E s \in SessionParams : PostSubmit(Owner, s)
  \/ \E c \in Callers, s \in SessionParams, q \in QuestionInputs :
        \E v \in ValuesTried(c, s, q) : PostSubmittedAnswer(c, s, q, v)

SpecAnswers == Init /\ [][NextAnswers]_vars

\* The channel alone: connections under every sessionId, faults, closes, the
\* clock, and the start route that creates the session.
NextSocket ==
  \/ Tick
  \/ PostStart(Owner, "a1")
  \/ \E s \in SessionParams : PostSubmit(Owner, s)
  \/ \E s \in SessionInputs : WsConnection(s)
  \/ \E s \in SessionParams : WsConnectionFault(s)
  \/ \E s \in SessionIds : WsClose(s)

SpecSocket == Init /\ [][NextSocket]_vars

\* Every mutating route under every caller: the owner, another student and
\* an admin, on assignment a1 and its sessions.
NextOwnership ==
  \/ \E c \in Callers : PostStart(c, "a1")
  \/ \E c \in Callers : PostStartV1(c, "a1")
  \/ \E c \in Callers, s \in SessionParams : PostResume(c, s)
  \/ \E c \in Callers, s \in SessionParams, q \in {ExamQuestions[1], ""} :
        PostSubmittedAnswer(c, s, q, StrVal("B"))
  \/ \E c \in Callers, s \in SessionParams : PostAnswered(c, s, ExamQuestions[1])
  \/ \E c \in Callers, s \in SessionParams : PostBookmark(c, s, ExamQuestions[1])
  \/ \E c \in Callers, s \in SessionParams : PostSubmit(c, s)

SpecOwnership == Init /\ [][NextOwnership]_vars

\* The two routes that write answeredQuestions, on every question of the
\* exam, with resubmissions.
NextAnswered ==
  \/ PostStart(Owner, "a1")
  \/ \E s \in SessionParams, q \in ExamQuestionSet, v \in SubmittedValues :
        PostSubmittedAnswer(Owner, s, q, v)
  \/ \E s \in SessionParams, q \in ExamQuestionSet : PostAnswered(Owner, s, q)
  \/ \E s \in SessionParams : PostSubmit(Owner, s)

SpecAnswered == Init /\ [][NextAnswered]_vars

\* The timer: one student's session of the timed exam (a1) or of the untimed
\* one (a3), its channel, the clock, and the remaining-time route asked by
\* every caller.
NextTimer ==
  \/ Tick
  \/ \E a \in {"a1", "a3"} : PostStart(Owner, a)
  \/ PostStartV1(Owner, "a1")
  \/ \E s \in SessionParams : PostSubmittedAnswer(Owner, s, ExamQuestions[1], StrVal("B"))
  \/ \E s \in SessionParams : PostSubmittedAnswerV1(Owner, s, ExamQuestions[1], StrVal("B"))
  \/ \E s \in SessionParams : PostSubmit(Owner, s)
  \/ \E s \in SessionInputs : WsConnection(s)
  \/ \E s \in SessionIds : WsClose(s)
  \/ \E c \in Callers, s \in SessionParams : GetRemainingTime(c, s)

SpecTimer == Init /\ [][NextTimer]_vars

\* ------------------------------------------------------------------ grading
\* Short questions with an integer correctAnswer and each tolerance absent or
\* 0..MaxTolerance, and the numbers submitted for them.
CorrectValues == {MaxTolerance + 1, MaxTolerance + 2}
Tolerances == {NULL} \cup 0..MaxTolerance
ShortQuestions ==
  {[type |-> "short", marks |-> 1, correctAnswer |-> NumVal(c),
    plusT |-> u, minusT |-> l] : c \in CorrectValues, u \in Tolerances, l \in Tolerances}
SubmittedNumbers == {NumVal(n) : n \in 0..(2 * MaxTolerance + 3)}

\* An answer request that has loaded its question and is about to grade.
InitGrading ==
  /\ now = 1
  /\ attemptsUsed = [a \in DOMAIN Assignments |-> 0]
  /\ sessions = <<>>
  /\ answers = [s \in SessionIds |-> <<>>]
  /\ sockets = [s \in SessionIds |-> 0]
  /\ \E q \in ShortQuestions, v \in SubmittedNumbers :
       inflight = [i \in 1..MaxInFlight |->
                     IF i = 1
                     THEN [Idle EXCEPT !.op = "answer", !.pc = "grade",
                                       !.question = q, !.submittedValue = v]
                     ELSE Idle]
  /\ requests = 0
  /\ response = NoResponse

\* "Determine correctness" of part_001 lines 88-102.
GradeAnswer(i) ==
  /\ inflight[i].op = "answer" /\ inflight[i].pc = "grade"
  /\ inflight' = [inflight EXCEPT
                    ![i].pc = "graded",
                    ![i].isCorrect = IsCorrect(inflight[i].question,
                                               inflight[i].submittedValue)]
  /\ UNCHANGED <<now, attemptsUsed, sessions, answers, sockets, requests, response>>

\* "Determine if answer is correct" of routes/submittedAnswers.js lines 82-96.
GradeAnswerV1(i) ==
  /\ inflight[i].op = "answer" /\ inflight[i].pc = "grade"
  /\ inflight' = [inflight EXCEPT
                    ![i].pc = "graded",
                    ![i].isCorrect = IsCorrectV1(inflight[i].question,
                                                 inflight[i].submittedValue)]
  /\ UNCHANGED <<now, attemptsUsed, sessions, answers, sockets, requests, response>>

NextGrading ==
  \/ \E i \in 1..MaxInFlight : GradeAnswer(i)
  \/ \E i \in 1..MaxInFlight : GradeAnswerV1(i)

SpecGrading == InitGrading /\ [][NextGrading]_vars

\* ----------------------------------------------------- interleaved handlers
\* A handler gives up control at each await, and another request's handler
\* may run between two of them. The handlers below are the start route and
\* the answer route of the later revision cut at their awaits; a request in
\* slot i keeps its local variables in inflight[i].

\* POST /start up to `await ExamAssignment.findById` and the checks on it.
StartLoad(i, caller, aid) ==
  /\ inflight[i].op = "idle"
  /\ requests < MaxRequests
  /\ StartRefusal(caller, aid)[1] = 0
  /\ inflight' = [inflight EXCEPT ![i] = [Idle EXCEPT !.op = "start",
                                                      !.pc = "findOpen",
                                                      !.aid = aid]]
  /\ requests' = requests + 1
  /\ UNCHANGED <<now, attemptsUsed, sessions, answers, sockets, response>>

\* `await ExamSession.findOne({ assignmentId, submittedAt: null })`: an
\* existing open session is returned, otherwise the handler goes on to create.
StartFindOpen(i) ==
  /\ inflight[i].op = "start" /\ inflight[i].pc = "findOpen"
  /\ LET existing == FindOpenSession(sessions, inflight[i].aid) IN
       IF existing # 0
       THEN /\ response' = Reply("start", existing, 200, "")
            /\ inflight' = [inflight EXCEPT ![i] = Idle]
       ELSE /\ response' = response
            /\ inflight' = [inflight EXCEPT ![i].pc = "save"]
  /\ UNCHANGED <<now, attemptsUsed, sessions, answers, sockets, requests>>

\* `await session.save()` of the new session, and the 201 response.
StartSave(i) ==
  /\ inflight[i].op = "start" /\ inflight[i].pc = "save"
  /\ Len(sessions) < MaxRaceSessions
  /\ sessions' = Append(sessions, NewSession(inflight[i].aid))
  /\ response' = Reply("start", Len(sessions) + 1, 201, "")
  /\ inflight' = [inflight EXCEPT ![i] = Idle]
  /\ UNCHANGED <<now, attemptsUsed, answers, sockets, requests>>

\* POST /submitted-answers up to `await Question.findById`: the session is
\* loaded, the checks pass, the value is graded.
AnswerLoad(i, caller, sid, qid, submittedValue) ==
  /\ inflight[i].op = "idle"
  /\ requests < MaxRequests
  /\ AnswerRefusal(caller, sid, qid)[1] = 0
  /\ inflight' = [inflight EXCEPT ![i] =
                    [Idle EXCEPT !.op = "answer", !.pc = "findOne",
                                 !.sid = sid, !.qid = qid,
                                 !.question = Questions[qid],
                                 !.submittedValue = submittedValue,
                                 !.isCorrect = IsCorrect(Questions[qid], submittedValue),
                                 !.loadedGrade = sessions[sid].grade,
                                 !.grade = sessions[sid].grade]]
  /\ requests' = requests + 1
  /\ UNCHANGED <<now, attemptsUsed, sessions, answers, sockets, response>>

\* `await SubmittedAnswer.findOne({ sessionId, questionId })`
AnswerFindOne(i) ==
  /\ inflight[i].op = "answer" /\ inflight[i].pc = "findOne"
  /\ LET r == inflight[i]
         found == FindAnswer(answers, r.sid, r.qid)
     IN  inflight' = [inflight EXCEPT
                        ![i].pc = "saveAnswer",
                        ![i].found = found,
                        ![i].previousCorrect =
                           found # 0 /\ answers[r.sid][found].isCorrect]
  /\ UNCHANGED <<now, attemptsUsed, sessions, answers, sockets, requests, response>>

\* `await answer.save()`: the found document is updated by _id, or a new one
\* is inserted; then the loaded session's grade and answeredQuestions are
\* adjusted in memory.
AnswerSaveAnswer(i) ==
  /\ inflight[i].op = "answer" /\ inflight[i].pc = "saveAnswer"
  /\ LET r == inflight[i]
         marks == Questions[r.qid].marks
     IN  IF r.found # 0
         THEN /\ answers' = [answers EXCEPT
                               ![r.sid][r.found].submittedValue = r.submittedValue,
                               ![r.sid][r.found].isCorrect = r.isCorrect]
              /\ inflight' = [inflight EXCEPT
                                ![i].pc = "saveSession",
                                ![i].grade = GradeAfterUpdate(r.grade, r.previousCorrect,
                                                              r.isCorrect, marks)]
         ELSE /\ answers' = [answers EXCEPT
                               ![r.sid] = Append(@, NewAnswer(r.sid, r.qid,
                                                             r.submittedValue,
                                                             r.isCorrect))]
              /\ inflight' = [inflight EXCEPT
                                ![i].pc = "saveSession",
                                ![i].pushed = AnswerId(r.sid, Len(answers[r.sid]) + 1),
                                ![i].grade = GradeAfterCreate(r.grade, r.isCorrect, marks)]
  /\ UNCHANGED <<now, attemptsUsed, sessions, sockets, requests, response>>

\* `await session.save()`: Mongoose writes the modified paths only, grade
\* with $set when its value changed and answeredQuestions with $push.
AnswerSaveSession(i) ==
  /\ inflight[i].op = "answer" /\ inflight[i].pc = "saveSession"
  /\ LET r == inflight[i]
         grade == IF r.grade # r.loadedGrade THEN r.grade
                  ELSE sessions[r.sid].grade
         answered == IF r.pushed # ""
                     THEN Append(sessions[r.sid].answeredQuestions, r.pushed)
                     ELSE sessions[r.sid].answeredQuestions
     IN  sessions' = [sessions EXCEPT ![r.sid].grade = grade,
                                      ![r.sid].answeredQuestions = answered]
  /\ inflight' = [inflight EXCEPT ![i].pc = "respond"]
  /\ UNCHANGED <<now, attemptsUsed, answers, sockets, requests, response>>

\* `await SubmittedAnswer.find({ sessionId })` and the response.
AnswerRespond(i) ==
  /\ inflight[i].op = "answer" /\ inflight[i].pc = "respond"
  /\ LET r == inflight[i]
         marks == Questions[r.qid].marks
     IN  response' =
           AnswerReply(r.sid, r.qid, IF IsNewAfterSave THEN 201 ELSE 200, answers,
                       r.isCorrect,
                       ReportedGradeChange(IsNewAfterSave, r.isCorrect,
                                           GradeChange(r.isCorrect, marks),
                                           IF r.previousCorrect THEN marks ELSE 0),
                       r.grade, r.found # 0, r.previousCorrect)
  /\ inflight' = [inflight EXCEPT ![i] = Idle]
  /\ UNCHANGED <<now, attemptsUsed, sessions, answers, sockets, requests>>

\* POST /exam-sessions/:sessionId/submit up to `await session.save()`: the
\* session is loaded with its assignment and the checks pass.
SubmitLoad(i, caller, sid) ==
  /\ inflight[i].op = "idle"
  /\ requests < MaxRequests
  /\ SessionExists(sid)
  /\ ~AccessDenied(caller, sessions[sid].assignmentId)
  /\ ~AlreadySubmitted(sessions[sid])
  /\ inflight' = [inflight EXCEPT ![i] =
                    [Idle EXCEPT !.op = "submit", !.pc = "saveSession",
                                 !.sid = sid,
                                 !.aid = sessions[sid].assignmentId,
                                 !.loadedAttempts =
                                    attemptsUsed[sessions[sid].assignmentId]]]
  /\ requests' = requests + 1
  /\ UNCHANGED <<now, attemptsUsed, sessions, answers, sockets, response>>

\* `await session.save()` of the submit route: submittedAt and the timer
\* fields are written.
SubmitSaveSession(i) ==
  /\ inflight[i].op = "submit" /\ inflight[i].pc = "saveSession"
  /\ sessions' = [sessions EXCEPT ![inflight[i].sid] = Finalized(@)]
  /\ inflight' = [inflight EXCEPT ![i].pc = "saveAssignment"]
  /\ UNCHANGED <<now, attemptsUsed, answers, sockets, requests, response>>

\* `assignment.attemptsUsed += 1; await assignment.save()` on the assignment
\* document loaded with the session, and the response.
SubmitSaveAssignment(i) ==
  /\ inflight[i].op = "submit" /\ inflight[i].pc = "saveAssignment"
  /\ attemptsUsed' = [attemptsUsed EXCEPT
                        ![inflight[i].aid] = inflight[i].loadedAttempts + 1]
  /\ response' = Reply("submit", inflight[i].sid, 200, "Exam submitted successfully")
  /\ inflight' = [inflight EXCEPT ![i] = Idle]
  /\ UNCHANGED <<now, sessions, answers, sockets, requests>>

\* The awaited database call of a suspended handler throws: the catch block
\* answers 500, the call has written nothing, and what earlier calls of the
\* request wrote stays written.
HandlerFault(i) ==
  /\ inflight[i].op # "idle"
  /\ response' = Reply(inflight[i].op, 0, 500, "error.message")
  /\ inflight' = [inflight EXCEPT ![i] = Idle]
  /\ UNCHANGED <<now, attemptsUsed, sessions, answers, sockets, requests>>

\* ---------------------------------------- the connection handler at its awaits
\* Connection handlers of session sid that have not reached ws.on("close").
PendingConnections(sid) ==
  Cardinality({i \in 1..MaxInFlight : inflight[i].op = "ws" /\ inflight[i].sid = sid})

\* wss.on("connection") up to `await ExamSession.findById`: the socket is
\* open, the sessionId is well-formed, no listener is registered on ws yet.
WsAccept(i, sid) ==
  /\ inflight[i].op = "idle"
  /\ requests < MaxRequests
  /\ SessionExists(sid)
  /\ sockets[sid] + PendingConnections(sid) < MaxSockets
  /\ inflight' = [inflight EXCEPT ![i] =
                    [Idle EXCEPT !.op = "ws", !.pc = "findById", !.sid = sid]]
  /\ requests' = requests + 1
  /\ UNCHANGED <<now, attemptsUsed, sessions, answers, sockets, response>>

\* The client closes the socket while the handler is suspended: ws emits
\* "close" with no listener registered, and the handler goes on.
WsClientCloses(i) ==
  /\ inflight[i].op = "ws" /\ inflight[i].pc \in {"findById", "update"}
  /\ inflight' = [inflight EXCEPT
                    ![i].pc = IF inflight[i].pc = "findById" THEN "findByIdClosed"
                              ELSE "updateClosed"]
  /\ UNCHANGED <<now, attemptsUsed, sessions, answers, sockets, requests, response>>

\* `await ExamSession.findById(sessionId)` returns the session.
WsFindById(i) ==
  /\ inflight[i].op = "ws" /\ inflight[i].pc \in {"findById", "findByIdClosed"}
  /\ inflight' = [inflight EXCEPT
                    ![i].pc = IF inflight[i].pc = "findById" THEN "update"
                              ELSE "updateClosed"]
  /\ UNCHANGED <<now, attemptsUsed, sessions, answers, sockets, requests, response>>

\* `await ExamSession.findByIdAndUpdate(...)` and ws.on("close", ...): the
\* run starts and the listener is registered. On a socket that is still open
\* the channel now counts as open; on one the client has closed the listener
\* never runs.
WsUpdate(i) ==
  /\ inflight[i].op = "ws" /\ inflight[i].pc \in {"update", "updateClosed"}
  /\ LET sid == inflight[i].sid IN
       /\ sessions' = [sessions EXCEPT ![sid].isRunning = TRUE,
                                       ![sid].runAt = now,
                                       ![sid].pausedAt = NULL]
       /\ sockets' = IF inflight[i].pc = "update"
                     THEN [sockets EXCEPT ![sid] = @ + 1]
                     ELSE sockets
       /\ response' = Reply("wsConnection", sid, 0, "open")
  /\ inflight' = [inflight EXCEPT ![i] = Idle]
  /\ UNCHANGED <<now, attemptsUsed, answers, requests>>

\* The channel with its connection handler cut at the awaits.
NextAwait ==
  \/ Tick
  \/ PostStart(Owner, "a1")
  \/ \E i \in 1..MaxInFlight, s \in SessionIds : WsAccept(i, s)
  \/ \E i \in 1..MaxInFlight : WsClientCloses(i)
  \/ \E i \in 1..MaxInFlight : WsFindById(i)
  \/ \E i \in 1..MaxInFlight : WsUpdate(i)
  \/ \E s \in SessionIds : WsClose(s)

\* The database answers every call: a suspended connection handler goes on.
\* Clients are not obliged to connect or to close.
SpecAwait ==
  /\ Init
  /\ [][NextAwait]_vars
  /\ \A i \in 1..MaxInFlight : WF_vars(WsFindById(i) \/ WsUpdate(i))

\* One request at a time, cut at its awaits, each of which may throw.
NextFault ==
  \/ StartLoad(1, Owner, "a1")
  \/ StartFindOpen(1)
  \/ StartSave(1)
  \/ \E s \in SessionIds, q \in ExamQuestionSet, v \in SubmittedValues :
        AnswerLoad(1, Owner, s, q, v)
  \/ AnswerFindOne(1)
  \/ AnswerSaveAnswer(1)
  \/ AnswerSaveSession(1)
  \/ AnswerRespond(1)
  \/ \E s \in SessionIds : SubmitLoad(1, Owner, s)
  \/ SubmitSaveSession(1)
  \/ SubmitSaveAssignment(1)
  \/ HandlerFault(1)

SpecFault == Init /\ [][NextFault]_vars

NextConc ==
  \/ \E i \in 1..MaxInFlight : StartLoad(i, Owner, "a1")
  \/ \E i \in 1..MaxInFlight : StartFindOpen(i)
  \/ \E i \in 1..MaxInFlight : StartSave(i)
  \/ \E i \in 1..MaxInFlight, s \in SessionIds, v \in SubmittedValues :
        \E q \in ExamQuestionSet : AnswerLoad(i, Owner, s, q, v)
  \/ \E i \in 1..MaxInFlight : AnswerFindOne(i)
  \/ \E i \in 1..MaxInFlight : AnswerSaveAnswer(i)
  \/ \E i \in 1..MaxInFlight : AnswerSaveSession(i)
  \/ \E i \in 1..MaxInFlight : AnswerRespond(i)

SpecConc == Init /\ [][NextConc]_vars

\* ----------------------------------------------------------------- bookmarks
\* The bookmark route on every question of the exam, with the answer route
\* and the submit next to it.
NextBookmark ==
  \/ Tick
  \/ PostStart(Owner, "a1")
  \/ \E s \in SessionParams, q \in ExamQuestionSet : PostBookmark(Owner, s, q)
  \/ \E s \in SessionParams :
        PostSubmittedAnswer(Owner, s, ExamQuestions[1], StrVal("B"))
  \/ \E s \in SessionIds : WsConnection(s)
  \/ \E s \in SessionParams : PostSubmit(Owner, s)

SpecBookmark == Init /\ [][NextBookmark]_vars

\* ------------------------------------------- close handler cut at its awaits
\* ws.on("close") up to `await ExamSession.findByIdAndUpdate`: the channel is
\* gone, the session has been read, `now` taken, and the new total computed
\* from the values read.
WsCloseFind(i, sid) ==
  /\ inflight[i].op = "idle"
  /\ requests < MaxRequests
  /\ sid \in SessionIds
  /\ sockets[sid] > 0
  /\ sockets' = [sockets EXCEPT ![sid] = @ - 1]
  /\ inflight' = [inflight EXCEPT ![i] =
                    [Idle EXCEPT !.op = "wsClose", !.pc = "update", !.sid = sid,
                                 !.pausedAt = now,
                                 !.totalTimeConsumed =
                                    sessions[sid].totalTimeConsumed
                                      + TimeInThisRun(sessions[sid])]]
  /\ requests' = requests + 1
  /\ UNCHANGED <<now, attemptsUsed, sessions, answers, response>>

\* `await ExamSession.findByIdAndUpdate(sessionId, { $set: ... })` of the
\* close handler: the values computed before the await are written.
WsCloseUpdate(i) ==
  /\ inflight[i].op = "wsClose" /\ inflight[i].pc = "update"
  /\ sessions' = [sessions EXCEPT
                    ![inflight[i].sid].isRunning = FALSE,
                    ![inflight[i].sid].pausedAt = inflight[i].pausedAt,
                    ![inflight[i].sid].totalTimeConsumed =
                       inflight[i].totalTimeConsumed]
  /\ response' = Reply("wsClose", inflight[i].sid, 0, "paused")
  /\ inflight' = [inflight EXCEPT ![i] = Idle]
  /\ UNCHANGED <<now, attemptsUsed, answers, sockets, requests>>

\* The channel with its close handler cut at the awaits.
NextPause ==
  \/ Tick
  \/ PostStart(Owner, "a1")
  \/ \E s \in SessionParams : PostSubmit(Owner, s)
  \/ \E s \in SessionIds : WsConnection(s)
  \/ \E i \in 1..MaxInFlight, s \in SessionIds : WsCloseFind(i, s)
  \/ \E i \in 1..MaxInFlight : WsCloseUpdate(i)

SpecPause == Init /\ [][NextPause]_vars

\* ---------------------------------------------- channels opened by any party
\* Whoever can reach the server can open a channel: the users, and a party
\* that presents no credentials.
Parties == Callers \cup {"anonymous"}

\* wss.on("connection") as reached by a given party: the handler reads the
\* sessionId of req.url and nothing else of the request; `authenticate` is
\* not on this path.
WsConnectionBy(party, sid) == party \in Parties /\ WsConnection(sid)

\* The close of a channel that the party opened.
WsCloseBy(party, sid) == party \in Parties /\ WsClose(sid)

\* The owner starts the session; every channel is opened and closed by a
\* party that is neither the owner nor an admin.
NextForeign ==
  \/ Tick
  \/ PostStart(Owner, "a1")
  \/ \E s \in SessionParams : PostSubmit(Owner, s)
  \/ \E p \in {"stu2", "anonymous"}, s \in SessionInputs : WsConnectionBy(p, s)
  \/ \E p \in {"stu2", "anonymous"}, s \in SessionIds : WsCloseBy(p, s)

SpecForeign == Init /\ [][NextForeign]_vars

\* ------------------------------------------------------------------- claims
\* The positions of session s's answer documents for question q.
RecordsFor(s, q) == {i \in 1..Len(answers[s]) : answers[s][i].questionId = q}

RECURSIVE SumMarks(_)
\* The marks of a set of questions, added up.
SumMarks(qs) ==
  IF qs = {} THEN 0
  ELSE LET q == CHOOSE x \in qs : TRUE
       IN  Questions[q].marks + SumMarks(qs \ {q})

\* C1: an explicit submit of an open session sets submittedAt and adds one to
\* the assignment's attemptsUsed; an explicit submit of a session that is
\* already submitted is refused with "Exam already submitted" and changes
\* neither the session, nor attemptsUsed, nor the answers.
C1_SubmitTwice ==
  [][\A c \in Callers, s \in SessionParams :
       (/\ SessionExists(s)
        /\ ~AccessDenied(c, sessions[s].assignmentId)
        /\ PostSubmit(c, s))
       => IF sessions[s].submittedAt = NULL
          THEN /\ sessions'[s].submittedAt # NULL
               /\ attemptsUsed' =
                    [attemptsUsed EXCEPT ![sessions[s].assignmentId] = @ + 1]
               /\ response'.status = 200
          ELSE /\ response'.status = 400
               /\ response'.message = "Exam already submitted"
               /\ sessions' = sessions
               /\ attemptsUsed' = attemptsUsed
               /\ answers' = answers]_vars

\* C1 witness: a second explicit submit has just been refused, after the
\* first one finalized the session and counted the attempt.
C1_SecondSubmitRefused ==
  /\ response.op = "submit"
  /\ response.status = 400
  /\ response.message = "Exam already submitted"
  /\ \E s \in 1..Len(sessions) :
       /\ sessions[s].submittedAt # NULL
       /\ attemptsUsed[sessions[s].assignmentId] = 1

\* C2: for every assignment, attemptsUsed equals the number of its sessions
\* whose submittedAt is set, however each of them was finalized.
C2_AttemptsCountFinalized ==
  \A a \in DOMAIN Assignments :
    attemptsUsed[a] =
      Cardinality({s \in 1..Len(sessions) :
                     /\ sessions[s].assignmentId = a
                     /\ sessions[s].submittedAt # NULL})

\* C3: when an accepted answer submission leaves no question of the exam
\* without an answer, the session is finalized (submittedAt set) and the
\* response reports examCompleted = true and no next question.
C3_LastAnswerFinalizes ==
  \A s \in 1..Len(sessions) :
    (/\ response.op = "answer"
     /\ response.status \in {200, 201}
     /\ response.sid = s
     /\ \A q \in ExamQuestionSet : RecordsFor(s, q) # {})
    => /\ sessions[s].submittedAt # NULL
       /\ response.examCompleted
       /\ response.nextQuestion = "null"

\* The grade of every session is the sum of the marks of the exam questions
\* whose answer document says isCorrect.
GradeIsSumOfCorrect ==
  \A s \in 1..Len(sessions) :
    sessions[s].grade =
      SumMarks({q \in ExamQuestionSet :
                  \E i \in RecordsFor(s, q) : answers[s][i].isCorrect})

\* An accepted submission changes the grade by +marks when the question goes
\* from absent or incorrect to correct, by -marks when it goes from correct
\* to incorrect, and by 0 otherwise.
GradeDeltaTable ==
  \A s \in 1..Len(sessions), q \in ExamQuestionSet :
    (/\ response'.op = "answer"
     /\ response'.status \in {200, 201}
     /\ response'.sid = s
     /\ response'.qid = q)
    => LET before == \E i \in RecordsFor(s, q) : answers[s][i].isCorrect
           after == \E i \in 1..Len(answers'[s]) :
                      /\ answers'[s][i].questionId = q
                      /\ answers'[s][i].isCorrect
           marks == Questions[q].marks
       IN  sessions'[s].grade - sessions[s].grade =
             IF ~before /\ after THEN marks
             ELSE IF before /\ ~after THEN 0 - marks
             ELSE 0

\* C4: with one request at a time, a session's grade is always the sum of the
\* marks of the questions whose current answer is correct, and every accepted
\* submission moves it by +marks, -marks or 0 as the correctness of that
\* question's answer changes.
C4_GradeMatchesRecords == []GradeIsSumOfCorrect /\ [][GradeDeltaTable]_vars

\* C4 witness: a correct answer to one question has just been replaced by an
\* incorrect one while another question's answer stays correct.
C4_CorrectTurnedIncorrect ==
  /\ response.op = "answer"
  /\ response.status = 200
  /\ response.previousCorrect
  /\ ~response.isCorrect
  /\ SessionExists(response.sid)
  /\ sessions[response.sid].grade = Questions["q2"].marks
  /\ \E i \in RecordsFor(response.sid, "q2") : answers[response.sid][i].isCorrect
  /\ \E i \in RecordsFor(response.sid, "q1") : ~answers[response.sid][i].isCorrect

\* C5: submitting a correct value for a question whose answer document is
\* already correct leaves the session's grade as it was and leaves exactly one
\* answer document for that question, whether the submission is accepted or
\* refused.
C5_CorrectAgainChangesNothing ==
  [][/\ \A s \in 1..Len(sessions), q \in ExamQuestionSet :
          (/\ response'.op = "answer"
           /\ response'.status \in {200, 201}
           /\ response'.sid = s
           /\ response'.qid = q
           /\ response'.isCorrect
           /\ \E i \in RecordsFor(s, q) : answers[s][i].isCorrect)
          => /\ sessions'[s].grade = sessions[s].grade
             /\ Cardinality({i \in 1..Len(answers'[s]) :
                               answers'[s][i].questionId = q}) = 1
     /\ (response'.op = "answer" /\ response'.status \notin {200, 201})
          => /\ sessions' = sessions
             /\ answers' = answers]_vars

\* C5 witness: a correct value has just been accepted for a question whose
\* document was already correct; the session still has that one document.
C5_CorrectResubmitted ==
  /\ response.op = "answer"
  /\ response.status = 200
  /\ response.found
  /\ response.previousCorrect
  /\ response.isCorrect
  /\ SessionExists(response.sid)
  /\ Len(answers[response.sid]) = 1
  /\ sessions[response.sid].grade = Questions[answers[response.sid][1].questionId].marks

\* C6: the gradeChange an accepted answer submission reports is the
\* difference between the session's grade after it and before it.
C6_ReportedChangeIsActual ==
  [][\A s \in 1..Len(sessions) :
       (/\ response'.op = "answer"
        /\ response'.status \in {200, 201}
        /\ response'.sid = s)
       => response'.gradeChange = sessions'[s].grade - sessions[s].grade]_vars

\* C7: a session never holds two answer documents for the same question,
\* also when submissions for the pair overlap.
C7_OneRecordPerQuestion ==
  \A s \in SessionIds, q \in DOMAIN Questions : Cardinality(RecordsFor(s, q)) <= 1

\* C8: an assignment never has two sessions with submittedAt unset, also
\* when start requests overlap.
C8_OneOpenSession ==
  \A a \in DOMAIN Assignments :
    Cardinality({s \in 1..Len(sessions) :
                   /\ sessions[s].assignmentId = a
                   /\ sessions[s].submittedAt = NULL}) <= 1

\* C9: once a session's submittedAt is set, no step changes the session
\* document, its answer documents or its assignment's attemptsUsed.
C9_FinalizedIsFrozen ==
  [][\A s \in 1..Len(sessions) :
       sessions[s].submittedAt # NULL
       => /\ sessions'[s] = sessions[s]
          /\ answers'[s] = answers[s]
          /\ attemptsUsed'[sessions[s].assignmentId] =
               attemptsUsed[sessions[s].assignmentId]]_vars

\* C10: a session's submittedAt is set exactly when every question of the
\* exam has exactly one answer document in the session.
C10_FinalizedIffAllAnswered ==
  \A s \in 1..Len(sessions) :
    (sessions[s].submittedAt # NULL)
      <=> (\A q \in ExamQuestionSet : Cardinality(RecordsFor(s, q)) = 1)

C12_NextIsLowestUnanswered ==
  (response.op \in {"answer", "resume"} /\ response.status \in {200, 201})
  => LET s == response.sid
         qs == QuestionsOf(sessions[s].assignmentId)
         unanswered ==
           {i \in 1..Len(qs) :
              \A k \in 1..Len(answers[s]) : answers[s][k].questionId # qs[i]}
     IN  IF unanswered = {}
         THEN response.nextQuestion = "null" /\ response.nextQuestionIndex = NULL
         ELSE \E i \in unanswered :
                /\ \A j \in unanswered : i <= j
                /\ response.nextQuestion = qs[i]
                /\ response.nextQuestionIndex = i - 1

\* C12 witness: the first and the third question are answered, and the answer
\* route returned the second question at position 1 although two answers are
\* recorded.
C12_SecondAfterFirstAndThird ==
  /\ response.op = "answer"
  /\ response.qid = "q6"
  /\ response.answeredCount = 2
  /\ response.nextQuestion = "q5"
  /\ response.nextQuestionIndex = 1

\* The questions with a record in session s, in the order they were answered,
\* each with its verdict.
Answered(s) ==
  [k \in 1..Len(answers[s]) |-> <<answers[s][k].questionId, answers[s][k].isCorrect>>]

\* An accepted answer to question q of session s with verdict isCorrect.
AcceptsAnswer(s, q, isCorrect) ==
  /\ response'.op = "answer"
  /\ response'.status \in {200, 201}
  /\ response'.sid = s
  /\ response'.qid = q
  /\ response'.isCorrect = isCorrect

\* C13: on the exam of three questions of 5 marks each, from a fresh session:
\* answering the first question correctly gives grade 5 and the second
\* question as next; then answering the third correctly gives grade 10 and
\* still the second as next; then answering the second incorrectly leaves
\* the grade at 10, returns no next question and the completion flag,
\* finalizes the session and adds one to attemptsUsed.
C13_ThreeQuestionTrace ==
  [][\A s \in SessionParams :
       (SessionExists(s) /\ sessions[s].assignmentId = "a3"
          /\ sessions[s].submittedAt = NULL)
       => /\ (Answered(s) = <<>> /\ sessions[s].grade = 0
                 /\ AcceptsAnswer(s, "q4", TRUE))
               => /\ sessions'[s].grade = 5
                  /\ response'.currentGrade = 5
                  /\ response'.nextQuestion = "q5"
          /\ (Answered(s) = <<<<"q4", TRUE>>>> /\ sessions[s].grade = 5
                 /\ AcceptsAnswer(s, "q6", TRUE))
               => /\ sessions'[s].grade = 10
                  /\ response'.currentGrade = 10
                  /\ response'.nextQuestion = "q5"
          /\ (Answered(s) = <<<<"q4", TRUE>>, <<"q6", TRUE>>>>
                 /\ sessions[s].grade = 10
                 /\ AcceptsAnswer(s, "q5", FALSE))
               => /\ sessions'[s].grade = 10
                  /\ response'.currentGrade = 10
                  /\ response'.nextQuestion = "null"
                  /\ response'.examCompleted
                  /\ sessions'[s].submittedAt # NULL
                  /\ attemptsUsed'["a3"] = attemptsUsed["a3"] + 1]_vars

\* C14: overlapping requests on a session leave it as some one-at-a-time
\* order of the same requests would. Executed one at a time, the answer
\* requests keep one record per question and a grade equal to the marks of
\* the questions answered correctly; so once no request is in flight, a
\* session with one record per question has that grade: no update is lost.
C14_NoLostGradeUpdate ==
  (/\ \A i \in 1..MaxInFlight : inflight[i].op = "idle"
   /\ \A s \in 1..Len(sessions), q \in ExamQuestionSet :
        Cardinality(RecordsFor(s, q)) <= 1)
  => \A s \in 1..Len(sessions) :
       sessions[s].grade =
         SumMarks({q \in ExamQuestionSet :
                     \A i \in RecordsFor(s, q) : answers[s][i].isCorrect} \
                  {q \in ExamQuestionSet : RecordsFor(s, q) = {}})

\* C15: while a channel is open for a session, a further connection for the
\* same session is not opened, and it leaves the session's isRunning, runAt,
\* pausedAt and totalTimeConsumed as they were.
C15_SecondConnectionRejected ==
  [][\A s \in SessionIds :
       (SessionExists(s) /\ sockets[s] >= 1 /\ WsConnection(s))
       => /\ sockets'[s] = sockets[s]
          /\ response'.message # "open"
          /\ sessions'[s].isRunning = sessions[s].isRunning
          /\ sessions'[s].runAt = sessions[s].runAt
          /\ sessions'[s].pausedAt = sessions[s].pausedAt
          /\ sessions'[s].totalTimeConsumed = sessions[s].totalTimeConsumed]_vars

\* The seconds session s has consumed: totalTimeConsumed, plus the run in
\* progress while the session is running.
Consumed(s) ==
  sessions[s].totalTimeConsumed +
    (IF sessions[s].isRunning THEN now - sessions[s].runAt ELSE 0)

\* The remaining time of a timed session: max(0, duration - consumed).
RemainingTime(s) ==
  LET left == ExamOf(sessions[s].assignmentId).duration - Consumed(s)
  IN  IF left > 0 THEN left ELSE 0

\* A session of a timed exam that is not finalized.
TimedAndOpen(s) ==
  /\ SessionExists(s)
  /\ ExamOf(sessions[s].assignmentId).type = "timed"
  /\ sessions[s].submittedAt = NULL

\* C16: the remaining time reported for a timed session that is not
\* finalized is max(0, duration - consumed), where consumed is
\* totalTimeConsumed plus, while the session is running, the seconds since
\* the run started.
C16_RemainingTimeCountsTheRun ==
  [][\A c \in Callers, s \in SessionParams :
       (TimedAndOpen(s) /\ GetRemainingTime(c, s) /\ response'.status = 200)
       => response'.remainingTime = RemainingTime(s)]_vars

\* C17: a reported remaining time is never negative, and the one reported
\* for a finalized session, of a timed or an untimed exam, is 0.
C17_ZeroOnceFinalized ==
  [][\A c \in Callers, s \in SessionParams :
       (SessionExists(s) /\ GetRemainingTime(c, s) /\ response'.status = 200)
       => /\ response'.remainingTime # NULL => response'.remainingTime >= 0
          /\ sessions[s].submittedAt # NULL
               => (response'.remainingTime # NULL /\ response'.remainingTime = 0)]_vars

\* C18: an answer that arrives for a session of a timed exam whose remaining
\* time is 0 is not accepted: the answers and the grade stay as they were
\* and the session is finalized.
C18_ExpiredAnswerNotAccepted ==
  [][\A s \in SessionParams :
       (/\ TimedAndOpen(s)
        /\ RemainingTime(s) = 0
        /\ response'.op = "answer"
        /\ \E q \in ExamQuestionSet, v \in SubmittedValues :
              PostSubmittedAnswer(Owner, s, q, v) \/ PostSubmittedAnswerV1(Owner, s, q, v))
       => /\ answers' = answers
          /\ sessions'[s].grade = sessions[s].grade
          /\ sessions'[s].submittedAt # NULL]_vars

\* The error kind of a response: 404 is NotFound, 403 Forbidden, the 400 of a
\* finalized session Conflict, every other 400 InvalidInput.
ErrorKind(r) ==
  IF r.status = 404 THEN "NotFound"
  ELSE IF r.status = 403 THEN "Forbidden"
  ELSE IF r.status = 400 /\ r.message = "Exam already submitted" THEN "Conflict"
  ELSE IF r.status = 400 THEN "InvalidInput"
  ELSE "none"

\* The error kinds that apply to an answer of caller c for session s and
\* question q (q = "" is a request without questionId).
KindsThatApply(c, s, q) ==
  {k \in {"NotFound", "Forbidden", "Conflict", "InvalidInput"} :
     \/ k = "NotFound"
          /\ (~SessionExists(s) \/ (q # "" /\ q \notin DOMAIN Questions))
     \/ k = "Forbidden" /\ SessionExists(s) /\ Users[c] = "student"
          /\ Assignments[sessions[s].assignmentId].studentId # c
     \/ k = "Conflict" /\ SessionExists(s) /\ sessions[s].submittedAt # NULL
     \/ k = "InvalidInput"
          /\ \/ q = ""
             \/ /\ SessionExists(s)
                /\ q \in DOMAIN Questions
                /\ \A i \in 1..Len(Exams[Assignments[sessions[s].assignmentId].examId].questions) :
                      Exams[Assignments[sessions[s].assignmentId].examId].questions[i] # q}

C21_ToleranceInterval ==
  \A i \in 1..MaxInFlight :
    inflight[i].pc = "graded"
    => LET q == inflight[i].question
           C == q.correctAnswer.n
           L == IF q.minusT = NULL THEN 0 ELSE q.minusT
           U == IF q.plusT = NULL THEN 0 ELSE q.plusT
           sub == inflight[i].submittedValue.n
       IN  inflight[i].isCorrect <=> (C - L <= sub /\ sub <= C + U)

\* C21 witness: with a lower tolerance of 2 and no upper tolerance, the
\* number C - 2 has been graded correct.
C21_LowerEdgeCorrect ==
  \E i \in 1..MaxInFlight :
    /\ inflight[i].pc = "graded"
    /\ inflight[i].question.minusT = 2
    /\ inflight[i].question.plusT = NULL
    /\ inflight[i].submittedValue.n = inflight[i].question.correctAnswer.n - 2
    /\ inflight[i].isCorrect

\* The step is a request of caller c that names assignment a1 or the
\* existing session s, with every required field present.
RequestBy(c, s) ==
  \/ PostStart(c, "a1")
  \/ PostStartV1(c, "a1")
  \/ /\ s \in 1..Len(sessions)
     /\ \/ PostResume(c, s)
        \/ PostSubmittedAnswer(c, s, ExamQuestions[1], StrVal("B"))
        \/ PostAnswered(c, s, ExamQuestions[1])
        \/ PostBookmark(c, s, ExamQuestions[1])
        \/ PostSubmit(c, s)

C24_PauseCountsTheRun ==
  [][\A s \in 1..Len(sessions) :
       /\ (/\ sockets[s] = 1 /\ sockets'[s] = 0
           /\ sessions[s].isRunning
           /\ sessions[s].submittedAt = NULL)
          => /\ sessions[s].runAt # NULL
             /\ sessions[s].runAt <= now
             /\ sessions'[s].totalTimeConsumed =
                  sessions[s].totalTimeConsumed + (now - sessions[s].runAt)
             /\ sessions'[s].isRunning = FALSE
             /\ sessions'[s].pausedAt = now
       /\ (sockets[s] = 0 /\ sockets'[s] = 1)
          => /\ sessions'[s].isRunning = TRUE
             /\ sessions'[s].runAt = now
             /\ sessions'[s].pausedAt = NULL
             /\ sessions'[s].totalTimeConsumed = sessions[s].totalTimeConsumed]_vars

\* C24 witness: a run of one second was paused and counted, and the session
\* has been connected again: it is running from the present second with
\* pausedAt cleared.
C24_RunningAgainAfterPause ==
  \E s \in 1..Len(sessions) :
    /\ response.op = "wsConnection" /\ response.sid = s
    /\ sockets[s] = 1
    /\ sessions[s].submittedAt = NULL
    /\ sessions[s].totalTimeConsumed = 1
    /\ sessions[s].isRunning
    /\ sessions[s].runAt = now
    /\ sessions[s].pausedAt = NULL

\* C25: a resume request accepted for a session that is not finalized makes
\* the session running with the present time as its run start, as a channel
\* connection does, and returns the lowest-index unanswered question; on a
\* finalized session it is refused and changes nothing.
C25_ResumeStartsTheRun ==
  [][\A s \in 1..Len(sessions) :
       /\ (/\ sessions[s].submittedAt = NULL
           /\ response'.op = "resume" /\ response'.sid = s
           /\ response'.status = 200
           /\ PostResume(Owner, s))
          => /\ sessions'[s].isRunning = TRUE
             /\ sessions'[s].runAt = now
             /\ response'.nextQuestionIndex # NULL
       /\ (sessions[s].submittedAt # NULL /\ PostResume(Owner, s))
          => /\ response'.status = 400
             /\ response'.message = "Exam already submitted"
             /\ UNCHANGED <<sessions, answers, attemptsUsed>>]_vars

\* C26: a database fault during an answer or a submit request leaves no
\* partial state. Requests run one at a time here, so once none is in flight
\* every stored answer is reflected in its session's grade, and every
\* session with submittedAt set is counted in its assignment's attemptsUsed.
C26_NoPartialState ==
  inflight[1].op = "idle"
  => /\ \A s \in 1..Len(sessions) :
          sessions[s].grade =
            SumMarks({q \in ExamQuestionSet :
                        \E i \in 1..Len(answers[s]) :
                          answers[s][i].questionId = q /\ answers[s][i].isCorrect})
     /\ \A a \in DOMAIN Assignments :
          attemptsUsed[a] =
            Cardinality({s \in 1..Len(sessions) :
                           sessions[s].assignmentId = a /\ sessions[s].submittedAt # NULL})

\* C27: after the channels accepted for a session have closed, the run-pause
\* transition follows: a session with no channel open and no connection
\* handler pending does not stay running.
C27_ClosedChannelPauses ==
  \A s \in SessionIds :
    (/\ s \in 1..Len(sessions)
     /\ sessions[s].isRunning
     /\ sockets[s] = 0
     /\ PendingConnections(s) = 0)
    ~> (s \in 1..Len(sessions) /\ ~sessions[s].isRunning)

\* C28: a session with submittedAt set is not running: isRunning is false and
\* runAt is null, however submit, connections and closes were ordered.
C28_FinalizedNotRunning ==
  \A s \in 1..Len(sessions) :
    sessions[s].submittedAt # NULL
    => (sessions[s].isRunning = FALSE /\ sessions[s].runAt = NULL)

\* C29: the grade of every session lies between 0 and the sum of the marks of
\* the questions of its exam, also while and after resubmissions of the same
\* question overlap.
C29_GradeWithinBounds ==
  \A s \in 1..Len(sessions) :
    /\ 0 <= sessions[s].grade
    /\ sessions[s].grade <= SumMarks(ExamQuestionSet)

\* C30: an assignment's attemptsUsed never exceeds its allowedAttempts, and
\* the number of sessions ever created for the assignment never exceeds
\* allowedAttempts.
C30_QuotaRespected ==
  \A a \in DOMAIN Assignments :
    /\ attemptsUsed[a] <= Assignments[a].allowedAttempts
    /\ Cardinality({s \in 1..Len(sessions) : sessions[s].assignmentId = a})
         <= Assignments[a].allowedAttempts

\* C31: no interval is counted twice in totalTimeConsumed: it is at most the
\* time elapsed since the session was created. A session is created inside
\* its assignment's window, so that time is at most now - opensAt.
C31_NoIntervalCountedTwice ==
  \A s \in 1..Len(sessions) :
    sessions[s].totalTimeConsumed
      <= now - Assignments[sessions[s].assignmentId].opensAt

\* C32: an explicit submit at time t of a running session whose one channel
\* has been open since runAt = t0 keeps the final run accounted for: what
\* the session holds after the submit, plus what the following close adds
\* to it, is the value before the run plus t - t0.
C32_FinalRunAccounted ==
  [][\A s \in 1..Len(sessions) :
       (/\ response'.op = "submit" /\ response'.status = 200
        /\ response'.sid = s
        /\ sessions[s].submittedAt = NULL /\ sessions'[s].submittedAt # NULL
        /\ sessions[s].isRunning /\ sockets[s] = 1
        /\ sessions[s].runAt # NULL)
       => sessions'[s].totalTimeConsumed + TimeInThisRun(sessions'[s])
            = sessions[s].totalTimeConsumed + (now - sessions[s].runAt)]_vars

\* The party is the owning student of the session's assignment or an admin.
OwnerOrAdmin(party, s) ==
  /\ party \in Callers
  /\ ~AccessDenied(party, sessions[s].assignmentId)

\* C33: a party without credentials, or a student who does not own the
\* assignment, changes no session's isRunning, runAt, pausedAt or
\* totalTimeConsumed by opening or closing a channel with the session's id.
C33_ForeignChannelChangesNothing ==
  [][\A p \in Parties, s \in 1..Len(sessions) :
       (/\ ~OwnerOrAdmin(p, s)
        /\ response'.op \in {"wsConnection", "wsClose"}
        /\ WsConnectionBy(p, s) \/ WsCloseBy(p, s))
       => /\ sessions'[s].isRunning = sessions[s].isRunning
          /\ sessions'[s].runAt = sessions[s].runAt
          /\ sessions'[s].pausedAt = sessions[s].pausedAt
          /\ sessions'[s].totalTimeConsumed = sessions[s].totalTimeConsumed]_vars

\* C34: no step lowers a session's totalTimeConsumed, however connections,
\* closes and the submit are ordered; the clock never goes back.
C34_TimeNeverDecreases ==
  [][\A s \in 1..Len(sessions) :
       sessions'[s].totalTimeConsumed >= sessions[s].totalTimeConsumed]_vars

\* How many entries of the id array are the id.
Occurrences(arr, id) == Cardinality({i \in 1..Len(arr) : arr[i] = id})

Members(arr) == {arr[i] : i \in 1..Len(arr)}

\* C36: on an open session a bookmark toggle of an exam question flips that
\* question's membership in bookmarkedQuestions and no other, so a second
\* toggle restores the membership; no question is in the array twice; and
\* the toggle changes nothing else: grade, timer fields, answeredQuestions,
\* submittedAt, the answers and attemptsUsed are as before.
C36_BookmarkToggle ==
  [][\A s \in 1..Len(sessions), q \in ExamQuestionSet :
       (/\ PostBookmark(Owner, s, q)
        /\ response'.op = "bookmark" /\ response'.status = 200)
       => LET before == sessions[s].bookmarkedQuestions
              after == sessions'[s].bookmarkedQuestions
          IN  /\ Members(after) = IF q \in Members(before)
                                  THEN Members(before) \ {q}
                                  ELSE Members(before) \cup {q}
              /\ \A x \in Members(after) : Occurrences(after, x) = 1
              /\ sessions' = [sessions EXCEPT ![s].bookmarkedQuestions = after]
              /\ answers' = answers
              /\ attemptsUsed' = attemptsUsed]_vars

\* The second toggle of q1 has removed it again, next to a bookmark of q2, on
\* a session that is running and has an answer.
C36_ToggledBack ==
  /\ response.op = "bookmark" /\ response.message = "unbookmarked"
  /\ response.sid \in 1..Len(sessions)
  /\ Members(sessions[response.sid].bookmarkedQuestions) = {ExamQuestions[2]}
  /\ sessions[response.sid].isRunning
  /\ sessions[response.sid].grade > 0

====
